---- MODULE Spec2Model ----
(***************************************************************************)
(* Model of sync_to_mongodb.py: a directory of JSON array files is         *)
(* reconciled, file by file, into the collections of a document store.     *)
(*                                                                         *)
(* Representation                                                          *)
(*   - a file name / collection name is a sequence of one-character        *)
(*     strings, so that stem, lower() and replace() are computed;          *)
(*   - a JSON object / stored document is a function from field names to   *)
(*     values; a value is tagged, the string s being Str(s) and JSON null  *)
(*     (Python None) the value None, which differs from every string;      *)
(*   - a collection is the sequence of its documents in natural order,     *)
(*     each [id |-> _id, f |-> fields].                                    *)
(***************************************************************************)
EXTENDS Integers, Sequences, FiniteSets, TLC

\* ------------------------------------------------------------------ bounds
MaxItems == 2   \* records in the input file of the reconciled collection
MaxDocs  == 2   \* documents initially stored in that collection
MaxFiles == 2   \* files of a directory drawn from the file-name universe

\* ------------------------------------------------------------- characters
Upper == <<"A","B","C","D","E","F","G","H","I","J","K","L","M",
           "N","O","P","Q","R","S","T","U","V","W","X","Y","Z">>
Lowers == <<"a","b","c","d","e","f","g","h","i","j","k","l","m",
            "n","o","p","q","r","s","t","u","v","w","x","y","z">>
\* code-point order of the characters file names are built from
Ascii == <<"-", ".", "0","1","2","3","4","5","6","7","8","9">> \o Upper
           \o <<"_">> \o Lowers

Ord(c) == CHOOSE i \in 1..Len(Ascii) : Ascii[i] = c

\* str.lower() on one character
LowerChar(c) ==
    IF \E i \in 1..Len(Upper) : Upper[i] = c
    THEN Lowers[CHOOSE i \in 1..Len(Upper) : Upper[i] = c]
    ELSE c

\* str < str, lexicographic on code points
RECURSIVE StrLess(_, _)
StrLess(a, b) ==
    IF b = <<>> THEN FALSE
    ELSE IF a = <<>> THEN TRUE
    ELSE IF Ord(Head(a)) # Ord(Head(b)) THEN Ord(Head(a)) < Ord(Head(b))
    ELSE StrLess(Tail(a), Tail(b))

EndsWith(s, suf) ==
    /\ Len(s) >= Len(suf)
    /\ SubSeq(s, Len(s) - Len(suf) + 1, Len(s)) = suf

\* ------------------------------------------------------------- file names
DotJson  == <<".","j","s","o","n">>
AllJson  == <<"A","l","l">> \o DotJson
I18nJson == <<"i","1","8","n">> \o DotJson
ModsJson == <<"M","o","d","s">> \o DotJson
modsJson == <<"m","o","d","s">> \o DotJson
ArchGun  == <<"a","-","g">> \o DotJson
Arch_Gun == <<"a","_","g">> \o DotJson
NotesTxt == <<"n",".","t","x","t">>

\* a mutant of SKIP_FILES: i18n.json is not skipped
SKIP_FILES_without_i18n == {AllJson}

\* Files to skip (large aggregated/translation files)
SKIP_FILES == {AllJson, I18nJson}

\* name.rfind('.') as a position counted from 1 (0: no dot)
RFindDot(s) ==
    IF \E i \in 1..Len(s) : s[i] = "."
    THEN CHOOSE i \in 1..Len(s) :
            s[i] = "." /\ \A j \in (i+1)..Len(s) : s[j] # "."
    ELSE 0

\* Path.stem cuts the name at its last dot only when that dot is neither the
\* first nor the last character (0 < i < len(name) - 1, i counted from 0);
\* LastDot is the position of the cut, 0 when the name is left whole
LastDot(s) ==
    IF 2 <= RFindDot(s) /\ RFindDot(s) <= Len(s) - 1 THEN RFindDot(s) ELSE 0

Stem(s) == IF LastDot(s) = 0 THEN s ELSE SubSeq(s, 1, LastDot(s) - 1)

\* str.lower()
RECURSIVE Lower(_)
Lower(s) == IF s = <<>> THEN <<>> ELSE <<LowerChar(Head(s))>> \o Lower(Tail(s))

\* str.replace(old, new) for one-character old and new
RECURSIVE Replace(_, _, _)
Replace(s, old, new) ==
    IF s = <<>> THEN <<>>
    ELSE <<IF Head(s) = old THEN new ELSE Head(s)>> \o Replace(Tail(s), old, new)

\* file_path.stem.lower().replace("-", "_")
get_collection_name(file_path) == Replace(Lower(Stem(file_path)), "-", "_")

\* json_dir.glob("*.json")
Glob(names) == {n \in names : EndsWith(n, DotJson)}

\* sorted(...) of a set of paths of one directory
RECURSIVE Sorted(_)
Sorted(names) ==
    IF names = {} THEN <<>>
    ELSE LET least == CHOOSE n \in names :
                         \A m \in names \ {n} : StrLess(n, m)
         IN <<least>> \o Sorted(names \ {least})

\* ------------------------------------------------------------------ store
\* JSON values are tagged, so that null differs from every string
None   == <<"null">>      \* JSON null, Python None
Str(s) == <<"str", s>>    \* the JSON string s
UNIQUE == "uniqueName"

\* a mutant of Truthy: only a missing or null uniqueName is skipped
Truthy_is_not_none(v) == v # None

\* Python truthiness of a uniqueName value (None and "" are falsy)
Truthy(v) == v # None /\ v # Str("")

\* dict.get(key): None when the key is absent
Get(item, key) == IF key \in DOMAIN item THEN item[key] ELSE None

Range(s) == {s[i] : i \in 1..Len(s)}

\* a mutant of Matches: the filter is keyed on the wrong field
Matches_on_name(doc, unique_name) ==
    "name" \in DOMAIN doc.f /\ doc.f["name"] = unique_name

\* the filter {"uniqueName": unique_name} on one stored document
Matches(doc, unique_name) ==
    UNIQUE \in DOMAIN doc.f /\ doc.f[UNIQUE] = unique_name

FirstMatch(docs, unique_name) ==
    IF \E i \in 1..Len(docs) : Matches(docs[i], unique_name)
    THEN CHOOSE i \in 1..Len(docs) :
            /\ Matches(docs[i], unique_name)
            /\ \A j \in 1..(i-1) : ~Matches(docs[j], unique_name)
    ELSE 0

\* a mutant of SetFields: the stored document is replaced by the record
SetFields_replace(old, item) == item

\* {"$set": item} applied to the fields of a stored document
SetFields(old, item) ==
    [k \in DOMAIN old \cup DOMAIN item |->
        IF k \in DOMAIN item THEN item[k] ELSE old[k]]

\* UpdateOne({"uniqueName": unique_name}, {"$set": item}, upsert=True)
\* st = [docs, next, upserted, matched, modified]
\* (a document is inserted only when none carries unique_name, and a matched
\* one keeps its uniqueName, so the unique index never rejects the write)
UpdateOne(st, item) ==
    LET i == FirstMatch(st.docs, item[UNIQUE]) IN
    IF i = 0
    THEN [st EXCEPT !.docs = Append(@, [id |-> st.next, f |-> item]),
                    !.next = @ + 1,
                    !.upserted = @ + 1]
    ELSE LET new == SetFields(st.docs[i].f, item) IN
         [st EXCEPT !.docs[i].f = new,
                    !.matched = @ + 1,
                    !.modified = @ + (IF new = st.docs[i].f THEN 0 ELSE 1)]

\* collection.bulk_write(ops, ordered=False): the server applies the
\* operations one at a time in an order of its choosing; `cut` of them are
\* applied (all of them unless the call raises)
RECURSIVE BulkWrite(_, _, _, _, _)
BulkWrite(st, ops, order, k, cut) ==
    IF k > cut THEN st
    ELSE BulkWrite(UpdateOne(st, ops[order[k]]), ops, order, k + 1, cut)

Perms(n) == {p \in [1..n -> 1..n] : \A i, j \in 1..n : p[i] = p[j] => i = j}

\* {doc["uniqueName"] for doc in collection.find({}, {"uniqueName": 1})
\*  if "uniqueName" in doc}
ExistingUniqueNames(docs) ==
    {docs[i].f[UNIQUE] : i \in {j \in 1..Len(docs) : UNIQUE \in DOMAIN docs[j].f}}

\* the filter {"uniqueName": {"$in": names}}: a null among the names also
\* matches the documents that have no uniqueName field
InMatch(doc, names) ==
    IF UNIQUE \in DOMAIN doc.f THEN doc.f[UNIQUE] \in names ELSE None \in names

\* collection.delete_many({"uniqueName": {"$in": list(to_delete)}})
DeleteMany(docs, names) == SelectSeq(docs, LAMBDA d : ~InMatch(d, names))

\* a unique index cannot be built over two documents carrying the same
\* uniqueName (sparse: documents without the field are not indexed)
HasDuplicateKeys(docs) ==
    \E i, j \in 1..Len(docs) :
        /\ i < j
        /\ UNIQUE \in DOMAIN docs[i].f /\ UNIQUE \in DOMAIN docs[j].f
        /\ docs[i].f[UNIQUE] = docs[j].f[UNIQUE]

\* -------------------------------------------------------------- reconciler
\* the records of the input that carry a truthy uniqueName, in input order:
\* one UpdateOne per such record
bulk_operations(items) == SelectSeq(items, LAMBDA item : Truthy(Get(item, UNIQUE)))

json_unique_names(items) ==
    {Get(items[i], UNIQUE) :
        i \in {j \in 1..Len(items) : Truthy(Get(items[j], UNIQUE))}}

NoStats == [inserted |-> 0, updated |-> 0, deleted |-> 0, unchanged |-> 0]

\* a mutant of DryRunStats: stored-and-listed identifiers count as unchanged
DryRunStats_unchanged(existing_docs, names) ==
    [inserted  |-> Cardinality(names \ existing_docs),
     updated   |-> 0,
     deleted   |-> Cardinality(existing_docs \ names),
     unchanged |-> Cardinality(existing_docs \cap names)]

\* the statistics of the dry-run branch
DryRunStats(existing_docs, names) ==
    [inserted  |-> Cardinality(names \ existing_docs),
     updated   |-> Cardinality(existing_docs \cap names),
     deleted   |-> Cardinality(existing_docs \ names),
     unchanged |-> 0]

\* a mutant of ToDelete: the difference is taken the wrong way round
ToDelete_reversed(existing_unique_names, names) == names \ existing_unique_names

\* the identifiers the write branch deletes
ToDelete(existing_unique_names, names) == existing_unique_names \ names

\* sync_collection(collection, items, dry_run) on a collection holding `docs`,
\* `next` being the next fresh _id. The store applies the upserts in `order`;
\* `fail` names the store call that raises ("none": no call does) and `cut`
\* the number of upserts applied before bulk_write raised.
\* Result: [docs, next, raised, stats, calls]; stats is meaningful when
\* raised = "none"; calls lists the store operations issued.
sync_collection(docs, next, items, dry_run, order, fail, cut) ==
    LET names == json_unique_names(items)
        ops   == bulk_operations(items)
    IN
    IF dry_run
    THEN [docs   |-> docs,
          next   |-> next,
          raised |-> IF fail = "find" THEN "find" ELSE "none",
          stats  |-> DryRunStats(ExistingUniqueNames(docs), names),
          calls  |-> <<"find">>]
    ELSE
    LET st0    == [docs |-> docs, next |-> next,
                   upserted |-> 0, matched |-> 0, modified |-> 0]
        bwFail == ops # <<>> /\ fail = "bulk_write"
        st1    == IF ops = <<>> THEN st0
                  ELSE BulkWrite(st0, ops, order, 1,
                                 IF bwFail THEN cut ELSE Len(ops))
        calls1 == IF ops = <<>> THEN <<>> ELSE <<"bulk_write">>
        stats1 == IF ops = <<>> THEN NoStats
                  ELSE [NoStats EXCEPT !.inserted  = st1.upserted,
                                       !.updated   = st1.modified,
                                       !.unchanged = st1.matched - st1.modified]
        existing_unique_names == ExistingUniqueNames(st1.docs)
        to_delete == ToDelete(existing_unique_names, names)
        docs2  == DeleteMany(st1.docs, to_delete)
    IN
    IF bwFail
    THEN [docs |-> st1.docs, next |-> st1.next, raised |-> "bulk_write",
          stats |-> NoStats, calls |-> calls1]
    ELSE IF fail = "find"
    THEN [docs |-> st1.docs, next |-> st1.next, raised |-> "find",
          stats |-> NoStats, calls |-> Append(calls1, "find")]
    ELSE IF to_delete = {}
    THEN [docs |-> st1.docs, next |-> st1.next, raised |-> "none",
          stats |-> stats1, calls |-> Append(calls1, "find")]
    ELSE IF fail = "delete_many"
    THEN [docs |-> st1.docs, next |-> st1.next, raised |-> "delete_many",
          stats |-> NoStats, calls |-> calls1 \o <<"find", "delete_many">>]
    ELSE [docs |-> docs2, next |-> st1.next, raised |-> "none",
          stats |-> [stats1 EXCEPT !.deleted = Len(st1.docs) - Len(docs2)],
          calls |-> calls1 \o <<"find", "delete_many">>]

\* ------------------------------------------------------------------ loader
\* A file is [root |-> the type name of the decoded root value,
\*            items |-> the records when the root is a list].
\* load_json_file raises ValueError unless the root is a list.
LoadRaises(content) == content.root # "list"

\* str(e) of the ValueError: "Expected array in {file_path}, got {type name}"
LoadMessage(file_path, content) ==
    [text |-> "Expected array in", path |-> file_path, got |-> content.root]

\* str(e) of an error raised by the store call `op`
StoreMessage(op) == [text |-> "store error", op |-> op]

\* ------------------------------------------------------------------- state
VARIABLES
    dir,         \* the JSON directory: file name -> file content
    db,          \* the database: collection name -> documents
    indexes,     \* collection name -> the unique sparse index exists
    nextId,      \* the next _id the store hands out
    dry_run,     \* --dry-run of the current invocation
    pc,          \* "run": inside the loop of sync_all, "done": it returned
    json_files,  \* sorted(json_dir.glob("*.json")) of the current invocation
    pos,         \* position of the loop in json_files
    all_stats,   \* collection name -> stats or {error: message}
    loaded,      \* history: the files load_json_file was called on
    last,        \* history: what the last loop iteration did
    prev         \* history: collection name -> its last write-mode sync

vars == <<dir, db, indexes, nextId, dry_run, pc, json_files, pos, all_stats,
          loaded, last, prev>>

\* ---------------------------------------------------------------- universes
Absent == <<"absent">>

\* the object with the given uniqueName and name (Absent: without the key)
Obj(u, n) ==
    [k \in (IF u = Absent THEN {} ELSE {UNIQUE})
           \cup (IF n = Absent THEN {} ELSE {"name"}) |->
        IF k = UNIQUE THEN u ELSE n]

InputRecords ==
    {Obj(Absent, Str("x")), Obj(None, Str("x")), Obj(Str(""), Str("x")),
     Obj(Str("A"), Absent), Obj(Str("A"), Str("x")), Obj(Str("A"), Str("y")),
     Obj(Str("B"), Str("y"))}

StoredFields ==
    {Obj(Absent, Str("x")), Obj(None, Str("x")), Obj(Str("A"), Str("x")),
     Obj(Str("C"), Str("x"))}

SeqsUpTo(S, n) == UNION {[1..k -> S] : k \in 0..n}

ListFile(items) == [root |-> "list", items |-> items]
DictFile == [root |-> "dict", items |-> <<>>]
StrFile == [root |-> "str", items |-> <<>>]

FileNames == {AllJson, I18nJson, ModsJson, modsJson, ArchGun, Arch_Gun, NotesTxt}

CollectionNames == {get_collection_name(n) : n \in Glob(FileNames)}

Mods == get_collection_name(ModsJson)

NoLast == [kind |-> "none"]
NoPrev == [ok |-> FALSE, items |-> <<>>, docs |-> <<>>]

\* json_files = sorted(json_dir.glob("*.json"))
JsonFiles(d) == Sorted(Glob(DOMAIN d))

\* what every invocation of sync_all starts from
Start ==
    /\ pc = "run"
    /\ json_files = JsonFiles(dir)
    /\ pos = 1
    /\ all_stats = <<>>
    /\ loaded = {}
    /\ last = NoLast

\* One collection in depth: a directory {All.json, Mods.json}, every input
\* list and every initial content of the collection within the bounds, in a
\* database that was never synced (no index yet).
Init ==
    /\ \E content \in {ListFile(items) : items \in SeqsUpTo(InputRecords, MaxItems)}
                      \cup {DictFile} :
          dir = [n \in {AllJson, ModsJson} |->
                    IF n = AllJson THEN DictFile ELSE content]
    /\ \E fs \in SeqsUpTo(StoredFields, MaxDocs) :
          /\ db = [c \in CollectionNames |->
                    IF c = Mods THEN [i \in 1..Len(fs) |-> [id |-> i, f |-> fs[i]]]
                    ELSE <<>>]
          /\ nextId = Len(fs) + 1
    /\ indexes = [c \in CollectionNames |-> FALSE]
    /\ dry_run \in BOOLEAN
    /\ prev = [c \in CollectionNames |-> NoPrev]
    /\ Start

\* The directory in breadth: every directory of at most MaxFiles files of the
\* file-name universe, small files, small collections.
DirContents == {DictFile, StrFile, ListFile(<<>>), ListFile(<<Obj(Str("A"), Str("x"))>>)}

InitDir ==
    /\ \E names \in SUBSET FileNames :
          /\ Cardinality(names) <= MaxFiles
          /\ dir \in [names -> DirContents]
    /\ \E fs \in {<<>>, <<Obj(Str("C"), Str("x"))>>} :
          /\ db = [c \in CollectionNames |->
                    [i \in 1..Len(fs) |-> [id |-> i, f |-> fs[i]]]]
          /\ nextId = Len(fs) + 1
    /\ indexes = [c \in CollectionNames |-> FALSE]
    /\ dry_run \in BOOLEAN
    /\ prev = [c \in CollectionNames |-> NoPrev]
    /\ Start

\* ----------------------------------------------------------------- actions
StoreCalls == {"create_index", "bulk_write", "find", "delete_many"}

\* a mutant of IndexAfter: the index is created in a dry run too
IndexAfter_dry_too(index, dry) == TRUE

\* if not dry_run: collection.create_index("uniqueName", unique=True, sparse=True)
IndexAfter(index, dry) == IF dry THEN index ELSE TRUE

\* what the try block of one loop iteration does to the collection `docs`:
\* [docs, next, index, raised, message, stats, calls]
TryBlock(file, content, docs, index, next, dry, order, fail, cut) ==
    IF LoadRaises(content)
    THEN [docs |-> docs, next |-> next, index |-> index, raised |-> "load",
          message |-> LoadMessage(file, content), stats |-> NoStats,
          calls |-> <<>>]
    ELSE IF ~dry /\ (fail = "create_index" \/ (~index /\ HasDuplicateKeys(docs)))
    THEN [docs |-> docs, next |-> next, index |-> index,
          raised |-> "create_index", message |-> StoreMessage("create_index"),
          stats |-> NoStats, calls |-> <<"create_index">>]
    ELSE LET r == sync_collection(docs, next, content.items, dry, order, fail, cut)
         IN [docs |-> r.docs, next |-> r.next,
             index |-> IndexAfter(index, dry),
             raised |-> r.raised, message |-> StoreMessage(r.raised),
             stats |-> r.stats,
             calls |-> (IF dry THEN <<>> ELSE <<"create_index">>) \o r.calls]

\* a mutant of StatsEntry: the error is swallowed, the zero stats recorded
StatsEntry_no_error(t) == t.stats

\* the entry the iteration writes into all_stats
StatsEntry(t) == IF t.raised = "none" THEN t.stats ELSE [error |-> t.message]

\* all_stats[collection_name] = entry
SetStats(stats, collection_name, entry) ==
    [c \in DOMAIN stats \cup {collection_name} |->
        IF c = collection_name THEN entry ELSE stats[c]]

\* the loop reaches a file of SKIP_FILES: continue
SkipFile ==
    /\ pc = "run" /\ pos <= Len(json_files)
    /\ json_files[pos] \in SKIP_FILES
    /\ pos' = pos + 1
    /\ last' = [kind |-> "skip", file |-> json_files[pos]]
    /\ UNCHANGED <<dir, db, indexes, nextId, dry_run, pc, json_files,
                   all_stats, loaded, prev>>

\* one iteration of the loop on a file that is not skipped: load it, create
\* the index, sync the collection, record the stats or the error
\* (`faulty`: the store calls that may raise for want of a reachable store)
ProcessFile(faulty) ==
    /\ pc = "run" /\ pos <= Len(json_files)
    /\ json_files[pos] \notin SKIP_FILES
    /\ LET file == json_files[pos]
           collection_name == get_collection_name(file)
           n == Len(bulk_operations(dir[file].items))
       IN
       \E fail \in {"none"} \cup faulty, order \in Perms(n) :
       \E cut \in (IF fail = "bulk_write" THEN 0..n ELSE {n}) :
         LET t == TryBlock(file, dir[file], db[collection_name],
                           indexes[collection_name], nextId, dry_run,
                           order, fail, cut)
         IN
         /\ db' = [db EXCEPT ![collection_name] = t.docs]
         /\ indexes' = [indexes EXCEPT ![collection_name] = t.index]
         /\ nextId' = t.next
         /\ all_stats' = SetStats(all_stats, collection_name, StatsEntry(t))
         /\ loaded' = loaded \cup {file}
         /\ last' = [kind |-> "file", file |-> file, coll |-> collection_name,
                     dry |-> dry_run, raised |-> t.raised,
                     items |-> dir[file].items, order |-> order,
                     pre |-> db[collection_name], post |-> t.docs,
                     next |-> nextId,
                     stats |-> t.stats, calls |-> t.calls,
                     before |-> all_stats,
                     again |-> /\ prev[collection_name].ok
                               /\ prev[collection_name].items = dir[file].items,
                     prevDocs |-> prev[collection_name].docs]
         /\ prev' = IF dry_run \/ t.raised = "load" THEN prev
                    ELSE [prev EXCEPT ![collection_name] =
                            IF t.raised = "none"
                            THEN [ok |-> TRUE, items |-> dir[file].items,
                                  docs |-> t.docs]
                            ELSE NoPrev]
    /\ pos' = pos + 1
    /\ UNCHANGED <<dir, dry_run, pc, json_files>>

\* the loop is over: client.close(), return all_stats
Return ==
    /\ pc = "run" /\ pos > Len(json_files)
    /\ pc' = "done"
    /\ UNCHANGED <<dir, db, indexes, nextId, dry_run, json_files, pos,
                   all_stats, loaded, last, prev>>

\* the same command line is run again on the same directory
RunAgain ==
    /\ pc = "done"
    /\ pc' = "run"
    /\ json_files' = JsonFiles(dir)
    /\ pos' = 1
    /\ all_stats' = <<>>
    /\ loaded' = {}
    /\ last' = NoLast
    /\ UNCHANGED <<dir, db, indexes, nextId, dry_run, prev>>

\* the script run again and again against a store that answers every call
Next == SkipFile \/ ProcessFile({}) \/ Return \/ RunAgain

Spec == Init /\ [][Next]_vars

\* one run of the script against a store any call of which may raise
NextDir == SkipFile \/ ProcessFile(StoreCalls) \/ Return

SpecDir == InitDir /\ [][NextDir]_vars

\* -------------------------------------------------------------- properties
\* the last loop iteration called sync_collection and it returned normally
Synced == last.kind = "file" /\ last.raised = "none"
Wrote  == Synced /\ ~last.dry
DryRan == Synced /\ last.dry

\* a record with a uniqueName that is neither missing, null nor empty
HasIdentifier(r) ==
    UNIQUE \in DOMAIN r /\ r[UNIQUE] \notin {<<"null">>, <<"str", "">>}

Identifiers(items) == {r[UNIQUE] : r \in {q \in Range(items) : HasIdentifier(q)}}

\* the uniqueName values carried by the documents of a collection
CarriedNames(docs) == {d.f[UNIQUE] : d \in {e \in Range(docs) : UNIQUE \in DOMAIN e.f}}

\* the input records that name the identifier u
RecordsOf(items, u) == {r \in Range(items) : HasIdentifier(r) /\ r[UNIQUE] = u}

\* the stored document with the given _id, after the sync
After(id) == CHOOSE d \in Range(last.post) : d.id = id

\* C1: after a write-mode sync_collection returned normally, the uniqueName
\* values carried by the documents of the collection are exactly the
\* non-empty uniqueName values of the input records.
C1_IdentifiersMatchInput ==
    Wrote => CarriedNames(db[last.coll]) = Identifiers(last.items)

C1_Witness ==
    /\ Wrote
    /\ last.stats.inserted > 0 /\ last.stats.deleted > 0
    /\ CarriedNames(last.pre) \cap Identifiers(last.items) # {}

\* C2: a dry run mutates nothing: no step of a dry run changes a document or
\* an index of the store, and a processed file issues no store call but find.
C2_DryRunMutatesNothing ==
    [][dry_run =>
        /\ db' = db
        /\ indexes' = indexes
        /\ nextId' = nextId
        /\ (last'.kind = "file" => Range(last'.calls) \subseteq {"find"})]_vars

C2_Witness ==
    /\ DryRan
    /\ last.stats.inserted > 0 /\ last.stats.deleted > 0
    /\ last.stats.updated > 0

\* C3: a write-mode sync_collection returns inserted = |J - E| and
\* deleted = |E - J|, E being the identifiers stored before the call and J
\* the identifiers of the input.
C3_CountsAreSetDifferences ==
    Wrote =>
        /\ last.stats.inserted =
              Cardinality(Identifiers(last.items) \ CarriedNames(last.pre))
        /\ last.stats.deleted =
              Cardinality(CarriedNames(last.pre) \ Identifiers(last.items))

\* C4: a dry-run sync_collection returns inserted = |J - E|,
\* updated = |E /\ J|, deleted = |E - J| and unchanged = 0, whatever the
\* content of the documents.
C4_DryRunCounts ==
    DryRan =>
        LET E == CarriedNames(last.pre)
            J == Identifiers(last.items)
        IN /\ last.stats.inserted  = Cardinality(J \ E)
           /\ last.stats.updated   = Cardinality(E \cap J)
           /\ last.stats.deleted   = Cardinality(E \ J)
           /\ last.stats.unchanged = 0

\* stored and listed with the very same content, still counted as updated
C4_Witness ==
    /\ DryRan
    /\ last.stats.inserted > 0 /\ last.stats.deleted > 0
    /\ \E d \in Range(last.pre) : d.f \in Range(last.items) /\ HasIdentifier(d.f)

\* C5: the input records without an identifier contribute nothing: they add
\* no upsert and no name to the target set, the sync issues the calls,
\* returns the counts and leaves the documents that the same sync of the
\* input without these records does, and no document it created lacks an
\* identifier.
C5_RecordsWithoutIdentifierIgnored ==
    Synced =>
        LET kept == SelectSeq(last.items, HasIdentifier)
            r == sync_collection(last.pre, last.next, kept, last.dry,
                                 last.order, "none", Len(kept))
        IN /\ json_unique_names(last.items) = Identifiers(kept)
           /\ bulk_operations(last.items) = kept
           /\ last.post = r.docs
           /\ last.stats = r.stats
           /\ \A d \in Range(last.post) : d.id >= last.next => HasIdentifier(d.f)
           /\ \A i \in 1..Len(last.calls) :
                 last.calls[i] # "create_index" => last.calls[i] \in Range(r.calls)
           /\ Range(r.calls) \subseteq Range(last.calls)

\* an empty uniqueName beside a record that is inserted
C5_Witness ==
    /\ Wrote
    /\ \E r \in Range(last.items) : UNIQUE \in DOMAIN r /\ r[UNIQUE] = <<"str", "">>
    /\ \E r \in Range(last.items) : HasIdentifier(r)
    /\ last.stats.inserted = 1
    /\ last.pre # <<>>

\* C6: a write-mode sync that follows a write-mode sync of the same
\* collection with the same input returns inserted = 0 and deleted = 0 and
\* leaves the identifiers the first one left.
C6_Idempotent ==
    (Wrote /\ last.again) =>
        /\ last.stats.inserted = 0
        /\ last.stats.deleted = 0
        /\ CarriedNames(last.post) = CarriedNames(last.prevDocs)

C6_Witness ==
    /\ Wrote /\ last.again
    /\ Cardinality(Identifiers(last.items)) = 2
    /\ last.pre = last.prevDocs

\* C7: an error raised while a file is loaded or synced is recorded as
\* {error: message} under the collection name of the file (for a root that
\* is not a list the message names the path and the decoded type), the loop
\* goes on, and when sync_all returns every file not skipped was loaded and
\* has an entry.
C7_FailureDoesNotAbort ==
    /\ (last.kind = "file" /\ last.raised # "none") =>
          /\ DOMAIN all_stats[last.coll] = {"error"}
          /\ last.raised = "load" =>
                /\ all_stats[last.coll].error.path = last.file
                /\ all_stats[last.coll].error.got = dir[last.file].root
                /\ dir[last.file].root # "list"
          /\ last.raised # "load" =>
                all_stats[last.coll].error = StoreMessage(last.raised)
    /\ (last.kind = "file" /\ last.raised = "none") =>
          DOMAIN all_stats[last.coll] = DOMAIN NoStats
    /\ pc = "done" =>
          /\ pos = Len(json_files) + 1
          /\ \A f \in Glob(DOMAIN dir) \ {AllJson, I18nJson} :
                f \in loaded /\ get_collection_name(f) \in DOMAIN all_stats

\* a first file with a dict root, a later file synced, the run completed
C7_Witness ==
    /\ pc = "done"
    /\ Len(json_files) >= 2
    /\ dir[json_files[1]].root = "dict"
    /\ get_collection_name(json_files[1]) \in DOMAIN all_stats
    /\ get_collection_name(json_files[2]) # get_collection_name(json_files[1])
    /\ "error" \in DOMAIN all_stats[get_collection_name(json_files[1])]
    /\ all_stats[get_collection_name(json_files[1])].error.got = "dict"
    /\ all_stats[get_collection_name(json_files[1])].error.path = json_files[1]
    /\ last.kind = "file" /\ last.raised = "none" /\ last.file = json_files[2]

\* C8: All.json and i18n.json are never loaded, the step that meets one
\* changes neither the store nor the mapping, and every key of the mapping
\* is the collection name of a file that was loaded.
C8_SkipList ==
    [][/\ AllJson \notin loaded' /\ I18nJson \notin loaded'
       /\ DOMAIN all_stats' \subseteq {get_collection_name(f) : f \in loaded'}
       /\ (pc = "run" /\ pos <= Len(json_files)
             /\ json_files[pos] \in {AllJson, I18nJson}) =>
               /\ db' = db /\ indexes' = indexes /\ nextId' = nextId
               /\ all_stats' = all_stats]_vars

C8_Witness ==
    /\ pc = "done"
    /\ I18nJson \in DOMAIN dir
    /\ Cardinality(DOMAIN all_stats) >= 1

\* C9: the mapping sync_all returns has one key per *.json file that is not
\* skipped, and an entry once written is never changed by a later file.
C9_OneEntryPerFile ==
    [][/\ pc' = "done" =>
            Cardinality(DOMAIN all_stats') =
                Cardinality(Glob(DOMAIN dir) \ {AllJson, I18nJson})
       /\ (pc = "run" /\ pc' = "run") =>
            \A c \in DOMAIN all_stats :
                c \in DOMAIN all_stats' /\ all_stats'[c] = all_stats[c]]_vars

\* C10 as claimed: every stored document whose uniqueName is in the input
\* keeps the fields the input record lacks and takes every field of the
\* input record.
C10_MergeEveryRecord ==
    Wrote =>
        \A d \in Range(last.pre) :
            UNIQUE \in DOMAIN d.f =>
                \A r \in RecordsOf(last.items, d.f[UNIQUE]) :
                    /\ \A k \in DOMAIN d.f \ DOMAIN r : After(d.id).f[k] = d.f[k]
                    /\ \A k \in DOMAIN r : After(d.id).f[k] = r[k]

\* C10 as amended: such a document keeps every field that no input record of
\* its uniqueName has, and each other field takes the value one of these
\* records gives it (the value of the record, when there is only one).
C10_MergeSomeRecord ==
    Wrote =>
        \A d \in Range(last.pre) :
            (UNIQUE \in DOMAIN d.f /\ RecordsOf(last.items, d.f[UNIQUE]) # {}) =>
                LET rs == RecordsOf(last.items, d.f[UNIQUE])
                    given == UNION {DOMAIN r : r \in rs}
                IN /\ \E e \in Range(last.post) : e.id = d.id
                   /\ DOMAIN After(d.id).f = DOMAIN d.f \cup given
                   /\ \A k \in DOMAIN d.f \ given : After(d.id).f[k] = d.f[k]
                   /\ \A k \in given :
                         \E r \in rs : k \in DOMAIN r /\ After(d.id).f[k] = r[k]

\* a stored name survives a record that has no name
C10_Witness ==
    /\ Wrote
    /\ \E d \in Range(last.pre) :
          /\ UNIQUE \in DOMAIN d.f /\ "name" \in DOMAIN d.f
          /\ RecordsOf(last.items, d.f[UNIQUE]) # {}
          /\ \A r \in RecordsOf(last.items, d.f[UNIQUE]) : "name" \notin DOMAIN r
          /\ After(d.id).f["name"] = d.f["name"]

====
